---- MODULE Spec2Model ----
(***************************************************************************)
(* Model of the automatic fixture registry of kitium-ai/jest-helpers       *)
(* (src/src/fixtures/registry.ts): AutomaticFixtureRegistry and the hooks  *)
(* returned by createAutomaticFixtureHooks.                                *)
(*                                                                         *)
(* JavaScript runs one callback at a time.  An async function runs         *)
(* synchronously up to its first await that has to wait, so every action   *)
(* below is one such synchronous stretch: a call up to its first           *)
(* suspension, or the continuation after an awaited producer or teardown   *)
(* settles.  The producers and teardowns are user code: their outcome      *)
(* (an object, null, a throw) is chosen nondeterministically.              *)
(*                                                                         *)
(* Callers follow the test runner's contract: no registry call or hook is  *)
(* issued while cleanupAll() or the hooks' beforeEach() is in progress.    *)
(* Producers already started settle at any time, also during and after a   *)
(* later cleanupAll() or clear(), and direct setup() calls may overlap.    *)
(***************************************************************************)
EXTENDS Naturals, Sequences, FiniteSets

VARIABLES
    fixtures,       \* Map<string, RegisteredFixture>: a function on the registered names
    cleanupOrder,   \* string[]: names pushed by completed setups
    tasks,          \* setup() calls suspended at `await registered.fixture.setup()`
    cleanup,        \* the cleanupAll() call in progress: loop index, errors, awaited teardown
    hook,           \* the hook set, and the Promise.all its beforeEach() awaits
    started,        \* number of producer invocations so far (names each task and its instance)
    ev,             \* history: what the last step did, as its caller sees it
    tdLog,          \* history: the teardown invocations of the cleanupAll() running or just ended
    setupLog,       \* history: names whose setup() returned an instance since the last cleanup
    live,           \* history: <<name, instance>> produced and not yet handed to a teardown
    life,           \* the StrictModeLifecycle and what it drives: guards, phase, clock, console capture
    call            \* an application of a pure function: its input and its result

vars == <<fixtures, cleanupOrder, tasks, cleanup, hook, started, ev, tdLog, setupLog, live,
          life, call>>

\* The registry's variables; the registry's operations read and write nothing else.
Outside == UNCHANGED <<life, call>>

(***************************************************************************)
(* Bounds of the model.                                                    *)
(***************************************************************************)
MaxProducerCalls == 3   \* producer invocations in a run

Names == {"a", "b"}             \* fixture names (non-empty strings)
Declared == <<"a", "b">>        \* Object.keys(fixtures) of the hook set, in declaration order

Null == 0                       \* the `null` of `data: T | null`
NoName == "-"

\* The object a producer invocation returns is named by the invocation's number.
Instances == 1..MaxProducerCalls

(***************************************************************************)
(* Helpers on sequences.                                                   *)
(***************************************************************************)
Range(s) == {s[i] : i \in 1..Len(s)}

Reverse(s) == [i \in 1..Len(s) |-> s[Len(s) + 1 - i]]

Without(s, S) == SelectSeq(s, LAMBDA x : x \notin S)

Event(op, name, out, value) == [op |-> op, name |-> name, out |-> out, value |-> value]

(***************************************************************************)
(* RegisteredFixture records: { fixture, data, setup }.  The `fixture`     *)
(* field (the definition's two functions) is only ever called, and the     *)
(* outcome of a call is nondeterministic, so the record keeps data and     *)
(* setup.  register() always stores a new object.  A suspended setup()     *)
(* keeps its `registered` reference: once the Map no longer holds that     *)
(* object (the name was registered again, or clear() ran) the task's       *)
(* writes go to an object nothing reads again.  A task's `held` flag says  *)
(* whether the Map still holds the record the task captured.               *)
(***************************************************************************)
NewRecord == [data |-> Null, setup |-> FALSE]

Has(fx, n) == n \in DOMAIN fx

\* Map.set(name, record)
MapSet(fx, n, r) == [m \in (DOMAIN fx) \cup {n} |-> IF m = n THEN r ELSE fx[m]]

\* A Map that still holds a definition.
UnclearedMap == [m \in {"a"} |-> [data |-> Null, setup |-> FALSE]]

\* The empty Map.
EmptyMap == [m \in {} |-> NewRecord]

\* The tasks after the Map dropped the records of the names in S.
Dropped(ts, S) == {IF t.name \in S THEN [t EXCEPT !.held = FALSE] ELSE t : t \in ts}

\* isSetup(name): registered?.setup ?? false
IsSetup(n) == IF Has(fixtures, n) THEN fixtures[n].setup ELSE FALSE

\* The condition without its test of `registered.data === null`.
UsableWithNull(fx, n) == Has(fx, n) /\ fx[n].setup

\* The condition of get() and of cleanupAll()'s skip, negated: the name has a record
\* that is set up and holds a non-null value.
Usable(fx, n) == Has(fx, n) /\ fx[n].setup /\ fx[n].data # Null

Idle == cleanup.pc = "idle" /\ hook.pc # "pending"

\* No cleanupAll() in progress.  `todo` and `quiet` are history: the names the call
\* found set up with an instance, in cleanupOrder's order, and whether no producer
\* was in flight when it was made.
IdleCleanup ==
    [pc |-> "idle", index |-> 0, errors |-> <<>>, name |-> NoName, todo |-> <<>>, quiet |-> TRUE]

NoHook == [pc |-> "none", waiting |-> {}, begun |-> <<>>]

NewHook == [pc |-> "idle", waiting |-> {}, begun |-> <<>>]

\* No strict-mode lifecycle has been created; no function is being applied.
NoLife == [pc |-> "none"]

NoCall == [fn |-> "none"]

\* A new registry, before any call.
NewRegistry ==
    /\ fixtures = EmptyMap
    /\ cleanupOrder = <<>>
    /\ tasks = {}
    /\ cleanup = IdleCleanup
    /\ hook = NoHook
    /\ started = 0
    /\ ev = Event("init", NoName, "ok", 0)
    /\ tdLog = <<>>
    /\ setupLog = <<>>
    /\ live = {}

Init ==
    /\ NewRegistry
    /\ life = NoLife
    /\ call = NoCall

(***************************************************************************)
(* register(name, fixture)                                                 *)
(***************************************************************************)
Register(n) ==
    /\ Idle
    /\ fixtures' = MapSet(fixtures, n, NewRecord)
    /\ tasks' = Dropped(tasks, {n})
    /\ setupLog' = Without(setupLog, {n})
    /\ ev' = Event("register", n, "ok", 0)
    /\ tdLog' = <<>>
    /\ UNCHANGED <<cleanupOrder, cleanup, hook, started, live>>

(***************************************************************************)
(* clear(), and the hooks' afterAll(), which only calls it.                *)
(***************************************************************************)
Clear ==
    /\ Idle
    /\ fixtures' = EmptyMap
    /\ cleanupOrder' = <<>>
    /\ tasks' = Dropped(tasks, Names)
    /\ setupLog' = <<>>
    /\ ev' = Event("clear", NoName, "ok", 0)
    /\ tdLog' = <<>>
    /\ UNCHANGED <<cleanup, hook, started, live>>

(***************************************************************************)
(* get(name), and the hooks' getFixture(name), which only calls it.        *)
(***************************************************************************)
GetResult(fx, n) ==
    IF Usable(fx, n)
        THEN Event("get", n, "value", fx[n].data)
        ELSE Event("get", n, "notSetup", 0)

Get(n) ==
    /\ Idle
    /\ ev' = GetResult(fixtures, n)
    /\ tdLog' = <<>>
    /\ UNCHANGED <<fixtures, cleanupOrder, tasks, cleanup, hook, started, setupLog, live>>

(***************************************************************************)
(* setup(name).  The synchronous part reads the record and either throws   *)
(* (not registered), returns the stored data (already set up), or invokes  *)
(* the producer and suspends on it.                                        *)
(***************************************************************************)
\* setup() without the `if (registered.setup)` return of lines 46-48.
SetupPathNoCache(fx, n) == IF ~Has(fx, n) THEN "notRegistered" ELSE "producer"

SetupPath(fx, n) ==
    IF ~Has(fx, n) THEN "notRegistered"
    ELSE IF fx[n].setup THEN "cached"
    ELSE "producer"

\* The task of a setup() call suspended on its producer.
NewTask(id, n, inBatch) == [id |-> id, name |-> n, held |-> TRUE, batch |-> inBatch]

\* History: a setup() call returned v for name n, whose record now holds v.
Logged(log, n, v) ==
    IF v = Null THEN Without(log, {n})
    ELSE IF n \in Range(log) THEN log
    ELSE Append(log, n)

SetupCall(n) ==
    /\ Idle
    /\ CASE SetupPath(fixtures, n) = "notRegistered" ->
                /\ ev' = Event("setup", n, "notRegistered", 0)
                /\ UNCHANGED <<tasks, started, setupLog>>
         [] SetupPath(fixtures, n) = "cached" ->
                /\ ev' = Event("setup", n, "cached", fixtures[n].data)
                /\ setupLog' = Logged(setupLog, n, fixtures[n].data)
                /\ UNCHANGED <<tasks, started>>
         [] SetupPath(fixtures, n) = "producer" ->
                /\ started < MaxProducerCalls
                /\ tasks' = tasks \cup {NewTask(started + 1, n, FALSE)}
                /\ started' = started + 1
                /\ ev' = Event("setup", n, "pending", 0)
                /\ UNCHANGED setupLog
    /\ tdLog' = <<>>
    /\ UNCHANGED <<fixtures, cleanupOrder, cleanup, hook, live>>

(***************************************************************************)
(* The continuation of setup() after its producer resolved with v          *)
(* (lines 63-69): store the data, mark the record set up, push the name.   *)
(***************************************************************************)
StoreData(fx, t, v) ==
    IF t.held
        THEN [fx EXCEPT ![t.name] = [data |-> v, setup |-> TRUE]]
        ELSE fx

\* History: the teardown log is that of the cleanupAll() running or just ended.
Kept(log) == IF cleanup.pc = "idle" THEN <<>> ELSE log

PushName(order, n) == Append(order, n)

\* Promise.all of the hooks' beforeEach(): one of its setup() promises fulfilled.
HookFulfil(h, t) ==
    IF h.pc = "pending" /\ t.id \in h.waiting
        THEN IF h.waiting = {t.id} THEN NewHook ELSE [h EXCEPT !.waiting = @ \ {t.id}]
        ELSE h

\* A combinator that rejects only once every one of its promises has settled.
HookRejectSettled(h, t) ==
    IF h.pc = "pending" /\ t.id \in h.waiting /\ h.waiting = {t.id} THEN NewHook ELSE h

\* Promise.all of the hooks' beforeEach(): one of its setup() promises rejected.
HookReject(h, t) ==
    IF h.pc = "pending" /\ t.id \in h.waiting THEN NewHook ELSE h

\* What the caller sees when the setup() of task t settles: the caller of a direct
\* setup() gets its result ("setupDetached" when the Map no longer holds the record
\* the call captured); a setup() started by beforeEach() is seen only through the
\* Promise.all (h before the step, h2 after it).
SettleEvent(t, h, h2, out, v) ==
    IF ~t.batch THEN Event(IF t.held THEN "setup" ELSE "setupDetached", t.name, out, v)
    ELSE IF h.pc = "pending" /\ h2.pc = "idle"
        THEN Event("beforeEach", t.name, IF out = "value" THEN "resolved" ELSE "rejected", 0)
    ELSE Event("settled", t.name, out, v)

ProducerResolve(t, v) ==
    /\ t \in tasks
    /\ tasks' = tasks \ {t}
    /\ fixtures' = StoreData(fixtures, t, v)
    /\ cleanupOrder' = PushName(cleanupOrder, t.name)
    /\ hook' = HookFulfil(hook, t)
    /\ ev' = SettleEvent(t, hook, hook', "value", v)
    /\ setupLog' = IF t.held /\ cleanup.pc = "idle" THEN Logged(setupLog, t.name, v) ELSE setupLog
    /\ live' = IF v # Null THEN live \cup {<<t.name, v>>} ELSE live
    /\ tdLog' = Kept(tdLog)
    /\ UNCHANGED <<cleanup, started>>

(***************************************************************************)
(* The continuation of setup() after its producer threw (lines 70-77):     *)
(* log and rethrow.                                                        *)
(***************************************************************************)
\* A catch block that marks the record set up although the producer threw.
FailedSetupMarked(fx, t) ==
    IF t.held THEN [fx EXCEPT ![t.name].setup = TRUE] ELSE fx

\* The catch block leaves the record as it is.
FailedSetup(fx, t) == fx

ProducerReject(t) ==
    /\ t \in tasks
    /\ tasks' = tasks \ {t}
    /\ fixtures' = FailedSetup(fixtures, t)
    /\ hook' = HookReject(hook, t)
    /\ ev' = SettleEvent(t, hook, hook', "producerFailed", 0)
    /\ tdLog' = Kept(tdLog)
    /\ UNCHANGED <<cleanupOrder, cleanup, started, setupLog, live>>

(***************************************************************************)
(* cleanupAll(), and the hooks' afterEach(), which only awaits it.         *)
(* The loop walks cleanupOrder from the last index down, skipping every    *)
(* entry that is out of range, unregistered, not set up or holding null,   *)
(* and suspends on the teardown of the first entry it does not skip.       *)
(***************************************************************************)
\* Lines 100-108: is entry i (1-based) torn down?
Visited(order, fx, i) == i <= Len(order) /\ Usable(fx, order[i])

\* The next index at or below i that the loop does not skip; 0 when the loop ends.
RECURSIVE NextVisited(_, _, _)
NextVisited(order, fx, i) ==
    IF i = 0 THEN 0
    ELSE IF Visited(order, fx, i) THEN i
    ELSE NextVisited(order, fx, i - 1)

\* The loop's starting index: cleanupOrder.length - 1 (0-based), Len (1-based).
FirstIndex(order) == Len(order)

\* The index after the one just handled: index--.
StepIndex(i) == i - 1

\* A cleanupAll() that swallows the collected errors.
CleanupResultSilent(errors) == Event("cleanupAll", NoName, "resolved", 0)

\* Lines 133-139: the outcome of cleanupAll() with the collected errors.
CleanupResult(errors) ==
    IF Len(errors) > 0
        THEN Event("cleanupAll", NoName, "rejected", Len(errors))
        ELSE Event("cleanupAll", NoName, "resolved", 0)

\* A cleanupAll() that keeps the cleanup order.
ResetOrderKept(order) == order

\* Line 133: this.cleanupOrder = []
ResetOrder(order) == <<>>

\* History: the teardown of name n was invoked with instance v.
Invoked(n, v) == [name |-> n, inst |-> v, out |-> "pending"]

\* Continue the loop at index i with the errors collected so far, on the registry as
\* it is now (fx): either suspend on the next teardown or finish.
CleanupFrom(i, errors, fx, log, todo, quiet) ==
    LET k == NextVisited(cleanupOrder, fx, i) IN
    IF k = 0
        THEN /\ cleanup' = IdleCleanup
             /\ cleanupOrder' = ResetOrder(cleanupOrder)
             /\ ev' = CleanupResult(errors)
             /\ tdLog' = log
             /\ setupLog' = <<>>
             /\ live' = live
        ELSE LET n == cleanupOrder[k] IN
             /\ cleanup' = [pc |-> "teardown", index |-> k, errors |-> errors, name |-> n,
                            todo |-> todo, quiet |-> quiet]
             /\ cleanupOrder' = cleanupOrder
             /\ ev' = Event("teardown", n, "pending", fx[n].data)
             /\ tdLog' = Append(log, Invoked(n, fx[n].data))
             /\ setupLog' = setupLog
             /\ live' = live \ {<<n, fx[n].data>>}

CleanupAllCall ==
    /\ Idle
    /\ CleanupFrom(FirstIndex(cleanupOrder), <<>>, fixtures, <<>>,
                   SelectSeq(cleanupOrder, LAMBDA n : Usable(fixtures, n)), tasks = {})
    /\ UNCHANGED <<fixtures, tasks, hook, started>>

\* Lines 124-125, after a teardown that returned.  No register() or clear() runs
\* during cleanupAll(), so the Map still holds the record the loop captured.
Release(fx, n) == [fx EXCEPT ![n] = [data |-> Null, setup |-> FALSE]]

\* Lines 126-130, after a teardown that threw: the error is collected and logged.
Caught(fx, n) == fx

\* A loop that goes on while the teardown it invoked has not settled.
Unawaited(log, out) == log

Settled(log, out) == [log EXCEPT ![Len(log)].out = out]

TeardownReturn ==
    /\ cleanup.pc = "teardown"
    /\ fixtures' = Release(fixtures, cleanup.name)
    /\ CleanupFrom(StepIndex(cleanup.index), cleanup.errors, fixtures', Settled(tdLog, "ok"),
                   cleanup.todo, cleanup.quiet)
    /\ UNCHANGED <<tasks, hook, started>>

TeardownThrow ==
    /\ cleanup.pc = "teardown"
    /\ fixtures' = Caught(fixtures, cleanup.name)
    /\ CleanupFrom(StepIndex(cleanup.index), Append(cleanup.errors, cleanup.name),
                   fixtures', Settled(tdLog, "threw"), cleanup.todo, cleanup.quiet)
    /\ UNCHANGED <<tasks, hook, started>>

(***************************************************************************)
(* createAutomaticFixtureHooks(fixtures): registers every declared fixture *)
(* in the process-wide registry, in declaration order, and returns the     *)
(* hooks.                                                                  *)
(***************************************************************************)
RECURSIVE RegisterAll(_, _)
RegisterAll(fx, i) ==
    IF i > Len(Declared) THEN fx
    ELSE RegisterAll(MapSet(fx, Declared[i], NewRecord), i + 1)

CreateHooks ==
    /\ Idle
    /\ fixtures' = RegisterAll(fixtures, 1)
    /\ tasks' = Dropped(tasks, Range(Declared))
    /\ hook' = NewHook
    /\ setupLog' = Without(setupLog, Range(Declared))
    /\ ev' = Event("createHooks", NoName, "ok", 0)
    /\ tdLog' = <<>>
    /\ UNCHANGED <<cleanupOrder, cleanup, started, live>>

(***************************************************************************)
(* The hooks' beforeEach(): calls setup(name) for every declared name in   *)
(* declaration order (each runs its synchronous part), then awaits         *)
(* Promise.all of the promises.                                            *)
(***************************************************************************)
DeclaredWith(fx, path) == {j \in 1..Len(Declared) : SetupPath(fx, Declared[j]) = path}

\* The number of producers invoked for Declared[1..j].
ProducersUpTo(fx, j) == Cardinality({k \in DeclaredWith(fx, "producer") : k <= j})

BatchTasks(fx) ==
    {NewTask(started + ProducersUpTo(fx, j), Declared[j], TRUE) :
        j \in DeclaredWith(fx, "producer")}

\* The declared names on the given path, in declaration order.
DeclaredOn(fx, path) == SelectSeq(Declared, LAMBDA n : SetupPath(fx, n) = path)

\* History: the setup() calls of the batch that returned stored data at once.
RECURSIVE LogCached(_, _, _)
LogCached(log, fx, i) ==
    IF i > Len(Declared) THEN log
    ELSE LogCached(IF SetupPath(fx, Declared[i]) = "cached"
                       THEN Logged(log, Declared[i], fx[Declared[i]].data)
                       ELSE log,
                   fx, i + 1)

\* A Promise.all that passes over the promises rejected at once.
AwaitAllLenient(fx) == IF DeclaredWith(fx, "producer") = {} THEN "resolved" ELSE "pending"

\* Promise.all over the promises of the batch.
AwaitAll(fx) ==
    IF DeclaredWith(fx, "notRegistered") # {} THEN "rejected"
    ELSE IF DeclaredWith(fx, "producer") = {} THEN "resolved"
    ELSE "pending"

BeforeEachCall ==
    /\ Idle
    /\ hook.pc # "none"
    /\ started + Cardinality(DeclaredWith(fixtures, "producer")) <= MaxProducerCalls
    /\ tasks' = tasks \cup BatchTasks(fixtures)
    /\ started' = started + Cardinality(DeclaredWith(fixtures, "producer"))
    /\ hook' = IF AwaitAll(fixtures) = "pending"
                  THEN [pc |-> "pending",
                        waiting |-> {t.id : t \in BatchTasks(fixtures)},
                        begun |-> DeclaredOn(fixtures, "producer")]
                  ELSE NewHook
    /\ setupLog' = LogCached(setupLog, fixtures, 1)
    /\ ev' = Event("beforeEach", NoName, AwaitAll(fixtures), 0)
    /\ tdLog' = <<>>
    /\ UNCHANGED <<fixtures, cleanupOrder, cleanup, live>>

(***************************************************************************)
(* The specification.                                                      *)
(***************************************************************************)
Next ==
    \/ \E n \in Names : Register(n) /\ Outside
    \/ \E n \in Names : SetupCall(n) /\ Outside
    \/ \E t \in tasks : ProducerResolve(t, t.id) /\ Outside
    \/ \E t \in tasks : ProducerResolve(t, Null) /\ Outside
    \/ \E t \in tasks : ProducerReject(t) /\ Outside
    \/ \E n \in Names : Get(n) /\ Outside
    \/ CleanupAllCall /\ Outside
    \/ TeardownReturn /\ Outside
    \/ TeardownThrow /\ Outside
    \/ Clear /\ Outside
    \/ CreateHooks /\ Outside
    \/ BeforeEachCall /\ Outside

Spec == Init /\ [][Next]_vars

(***************************************************************************)
(* Sequential use: the caller awaits every call before making the next     *)
(* one, so a call is made only when no producer is in flight.  The         *)
(* producers of one beforeEach() still run concurrently.                   *)
(***************************************************************************)
SeqNext ==
    \/ tasks = {} /\ Outside /\ \E n \in Names : Register(n)
    \/ tasks = {} /\ Outside /\ \E n \in Names : SetupCall(n)
    \/ \E t \in tasks : ProducerResolve(t, t.id) /\ Outside
    \/ \E t \in tasks : ProducerResolve(t, Null) /\ Outside
    \/ \E t \in tasks : ProducerReject(t) /\ Outside
    \/ tasks = {} /\ Outside /\ \E n \in Names : Get(n)
    \/ tasks = {} /\ Outside /\ CleanupAllCall
    \/ TeardownReturn /\ Outside
    \/ TeardownThrow /\ Outside
    \/ tasks = {} /\ Outside /\ Clear
    \/ tasks = {} /\ Outside /\ CreateHooks
    \/ tasks = {} /\ Outside /\ BeforeEachCall

SeqSpec == Init /\ [][SeqNext]_vars

TypeOK ==
    /\ DOMAIN fixtures \subseteq Names
    /\ \A n \in DOMAIN fixtures :
          /\ fixtures[n].data \in Instances \cup {Null}
          /\ fixtures[n].setup \in BOOLEAN
    /\ cleanupOrder \in Seq(Names)
    /\ started \in 0..MaxProducerCalls
    /\ cleanup.pc \in {"idle", "teardown"}
    /\ hook.pc \in {"none", "idle", "pending"}

(***************************************************************************)
(* Strict-mode presets (src/src/setup/strict-mode.ts, jest-wrapper.ts).    *)
(* An options object is a function from option names to values; a key the  *)
(* caller did not give is not in its domain.  `{ ...defaults, ...options }`*)
(* takes every key of options over the defaults.                           *)
(***************************************************************************)
Spread(defaults, options) ==
    [k \in (DOMAIN defaults) \cup (DOMAIN options) |->
        IF k \in DOMAIN options THEN options[k] ELSE defaults[k]]

\* The options object `{}`.
NoOptions == [k \in {} |-> TRUE]

\* parseOptions: the defaults of createStrictModePreset.
ParseDefaults ==
    [shouldEnableContextPropagation |-> TRUE,
     shouldEnableAutomaticCleanup |-> TRUE,
     shouldEnableRequestRecording |-> TRUE,
     shouldEnableObservabilityMatchers |-> TRUE,
     shouldEnableContextAwareConsole |-> TRUE,
     logLevel |-> "INFO",
     shouldFailOnUnhandledRejection |-> TRUE,
     shouldFailOnConsoleError |-> FALSE,
     shouldFailOnConsoleNoise |-> FALSE,
     timeout |-> 30000,
     timerPolicy |-> "real",
     shouldFailOnTimerLeaks |-> TRUE]

parseOptions(options) == Spread(ParseDefaults, options)

\* createStrictModePreset, as far as the configuration goes: the parsed options.
createStrictModePreset(options) == parseOptions(options)

UnitDefaults ==
    [shouldEnableContextPropagation |-> TRUE,
     shouldEnableAutomaticCleanup |-> TRUE,
     shouldEnableRequestRecording |-> FALSE,
     shouldEnableObservabilityMatchers |-> FALSE,
     shouldEnableContextAwareConsole |-> TRUE,
     logLevel |-> "DEBUG",
     shouldFailOnUnhandledRejection |-> TRUE,
     shouldFailOnConsoleError |-> FALSE,
     shouldFailOnConsoleNoise |-> TRUE,
     timeout |-> 10000,
     timerPolicy |-> "fake",
     shouldFailOnTimerLeaks |-> TRUE]

IntegrationDefaults ==
    [shouldEnableContextPropagation |-> TRUE,
     shouldEnableAutomaticCleanup |-> TRUE,
     shouldEnableRequestRecording |-> TRUE,
     shouldEnableObservabilityMatchers |-> TRUE,
     shouldEnableContextAwareConsole |-> TRUE,
     logLevel |-> "INFO",
     shouldFailOnUnhandledRejection |-> TRUE,
     shouldFailOnConsoleError |-> FALSE,
     shouldFailOnConsoleNoise |-> TRUE,
     timeout |-> 30000,
     timerPolicy |-> "real",
     shouldFailOnTimerLeaks |-> TRUE]

E2eDefaults == [IntegrationDefaults EXCEPT !.timeout = 60000]

ContractDefaults == IntegrationDefaults

unitTest(options) == createStrictModePreset(Spread(UnitDefaults, options))

integrationTest(options) == createStrictModePreset(Spread(IntegrationDefaults, options))

e2eTest(options) == createStrictModePreset(Spread(E2eDefaults, options))

contractTest(options) == createStrictModePreset(Spread(ContractDefaults, options))

\* A switch whose default branch is the integration preset.
getPresetHooksOther(preset, options) ==
    CASE preset = "unit" -> unitTest(options)
      [] preset = "e2e" -> e2eTest(options)
      [] OTHER -> integrationTest(options)

\* getPresetHooks: the switch on the preset name, with unit as the default branch.
getPresetHooks(preset, options) ==
    CASE preset = "unit" -> unitTest(options)
      [] preset = "integration" -> integrationTest(options)
      [] preset = "e2e" -> e2eTest(options)
      [] preset = "contract" -> contractTest(options)
      [] OTHER -> unitTest(options)

\* The LifecycleGuards that createStrictModePreset hands to the lifecycle.
Guards(parsed) ==
    [timerPolicy |-> parsed.timerPolicy,
     failOnTimerLeaks |-> parsed.shouldFailOnTimerLeaks,
     failOnConsoleNoise |-> parsed.shouldFailOnConsoleNoise]

\* Preset names given to setupJest: the four declared ones and one that is not.
PresetNames == {"unit", "integration", "e2e", "contract", "smoke"}

\* Caller overrides of the guard options: each key absent or given either value.
PolicyOverrides == {NoOptions} \cup {[timerPolicy |-> v] : v \in {"fake", "real"}}

FlagOverrides ==
    UNION {[K -> BOOLEAN] : K \in SUBSET {"shouldFailOnConsoleNoise", "shouldFailOnTimerLeaks"}}

OptionSets == {Spread(o, f) : o \in PolicyOverrides, f \in FlagOverrides}

(***************************************************************************)
(* setupJest(preset, options), as a function applied to drawn inputs.      *)
(***************************************************************************)
PresetInit ==
    /\ NewRegistry
    /\ life = NoLife
    /\ call \in {[fn |-> "setupJest", preset |-> p, options |-> o, done |-> FALSE,
                   result |-> NoOptions] : p \in PresetNames, o \in OptionSets}

SetupJest ==
    /\ call.fn = "setupJest"
    /\ ~call.done
    /\ call' = [call EXCEPT !.done = TRUE, !.result = getPresetHooks(call.preset, call.options)]
    /\ UNCHANGED <<fixtures, cleanupOrder, tasks, cleanup, hook, started, ev, tdLog, setupLog,
                   live, life>>

PresetNext == SetupJest

PresetSpec == PresetInit /\ [][PresetNext]_vars

(***************************************************************************)
(* StrictModeLifecycle (src/src/setup/strict-mode.ts:333-464), created by  *)
(* a preset with the declared fixtures, so that consoleHooks and           *)
(* fixtureHooks are both present.  The test runner calls beforeAll, then   *)
(* for every test beforeEach, the test body (skipped when beforeEach       *)
(* failed) and afterEach, then afterAll.  Whether the body passes or fails *)
(* changes nothing the hooks read, so a body is its calls of getFixture,   *)
(* console output and timers.                                              *)
(***************************************************************************)
MaxEntries == 2     \* console entries captured in one test
MaxTimers == 2      \* fake timers pending at once

\* Captured console entries.
ConsoleEntries == {[level |-> "warn", message |-> "w"], [level |-> "error", message |-> "e"]}

\* Presets and overrides a lifecycle is created with.
LifePresets == PresetNames

LifeOptions == OptionSets

\* History kept with the lifecycle: `steps` are the steps the afterEach in progress or
\* last ended has run, `out` how the last afterEach ended, `message` and `count` the
\* content of the error it threw, `leaked` the timers pending when it began.
NewLife(guards) ==
    [pc |-> "idle", guards |-> guards, clock |-> "real", timers |-> 0,
     capturing |-> FALSE, entries |-> <<>>,
     steps |-> {}, out |-> "none", message |-> <<>>, count |-> 0, leaked |-> 0]

StrictInit ==
    /\ fixtures = RegisterAll(EmptyMap, 1)
    /\ cleanupOrder = <<>>
    /\ tasks = {}
    /\ cleanup = IdleCleanup
    /\ hook = NewHook
    /\ started = 0
    /\ ev = Event("createHooks", NoName, "ok", 0)
    /\ tdLog = <<>>
    /\ setupLog = <<>>
    /\ live = {}
    /\ life \in {NewLife(Guards(getPresetHooks(p, o))) : p \in LifePresets, o \in LifeOptions}
    /\ call = NoCall

LcBeforeAll ==
    /\ life.pc = "idle"
    /\ life' = [life EXCEPT !.pc = "suite"]
    /\ UNCHANGED <<fixtures, cleanupOrder, tasks, cleanup, hook, started, ev, tdLog, setupLog,
                   live, call>>

\* jest.useFakeTimers() / jest.useRealTimers(): the clock in use afterwards.
TimerMode(guards) == IF guards.timerPolicy = "fake" THEN "fake" ELSE "real"

\* The callbacks pending on the fake clock after jest.useFakeTimers(): the runner's
\* modern clock is installed anew (none), its legacy one keeps them.
Reinstalled(l) == IF l.guards.timerPolicy = "fake" THEN {0, l.timers} ELSE {l.timers}

\* Where beforeEach() stands once fixtureHooks.beforeEach() was called.
Awaited(outcome) ==
    CASE outcome = "pending" -> "beforeEach"
      [] outcome = "resolved" -> "test"
      [] OTHER -> "skipped"

LcBeforeEach ==
    /\ life.pc = "suite"
    /\ BeforeEachCall
    /\ \E n \in Reinstalled(life) :
          life' = [life EXCEPT !.pc = Awaited(AwaitAll(fixtures)),
                               !.capturing = TRUE, !.entries = <<>>,
                               !.clock = TimerMode(life.guards), !.timers = n,
                               !.steps = {}, !.out = "none", !.message = <<>>,
                               !.count = 0, !.leaked = 0]
    /\ UNCHANGED call

\* The lifecycle after a producer settled: its beforeEach() continues when the
\* Promise.all it awaits has settled with this step.
Continued(l, h, h2, e) ==
    IF l.pc = "beforeEach" /\ h.pc = "pending" /\ h2.pc = "idle"
        THEN [l EXCEPT !.pc = Awaited(e.out)]
        ELSE l

LcProducerResolve(t, v) ==
    /\ life.pc \notin {"none", "done"}
    /\ ProducerResolve(t, v)
    /\ life' = Continued(life, hook, hook', ev')
    /\ UNCHANGED call

LcProducerReject(t) ==
    /\ life.pc \notin {"none", "done"}
    /\ ProducerReject(t)
    /\ life' = Continued(life, hook, hook', ev')
    /\ UNCHANGED call

(***************************************************************************)
(* The test body.                                                          *)
(***************************************************************************)
LcGetFixture(n) ==
    /\ life.pc = "test"
    /\ Get(n)
    /\ UNCHANGED <<life, call>>

LcConsole(e) ==
    /\ life.pc = "test"
    /\ life.capturing
    /\ Len(life.entries) < MaxEntries
    /\ life' = [life EXCEPT !.entries = Append(@, e)]
    /\ UNCHANGED <<fixtures, cleanupOrder, tasks, cleanup, hook, started, ev, tdLog, setupLog,
                   live, call>>

LcSetTimeout ==
    /\ life.pc = "test"
    /\ life.clock = "fake"
    /\ life.timers < MaxTimers
    /\ life' = [life EXCEPT !.timers = @ + 1]
    /\ UNCHANGED <<fixtures, cleanupOrder, tasks, cleanup, hook, started, ev, tdLog, setupLog,
                   live, call>>

LcRunAllTimers ==
    /\ life.pc = "test"
    /\ life.timers > 0
    /\ life' = [life EXCEPT !.timers = 0]
    /\ UNCHANGED <<fixtures, cleanupOrder, tasks, cleanup, hook, started, ev, tdLog, setupLog,
                   live, call>>

(***************************************************************************)
(* afterEach() (lines 394-430).  Up to its await of the fixture cleanup it *)
(* runs in one stretch; it continues when cleanupAll() has settled.        *)
(***************************************************************************)
\* extractConsoleEntries(capture): the capture's `entries` array.
extractConsoleEntries(l) == IF l.capturing THEN l.entries ELSE <<>>

\* An error text that names the levels only.
FormatLevel(e) == <<e.level, ": ", "">>

\* Lines 402-404: one entry in the error text.
FormatEntry(e) ==
    IF "level" \in DOMAIN e THEN <<e.level, ": ", e.message>> ELSE <<"json", e>>

\* Lines 400-406: the entries mapped and joined.
NoiseMessage(entries) == [i \in 1..Len(entries) |-> FormatEntry(entries[i])]

\* Lines 395-398: the console noise guard finds entries.
NoiseFound(l) == l.guards.failOnConsoleNoise /\ Len(extractConsoleEntries(l)) > 0

\* Line 399: the guard throws and afterEach() is left.
NoiseThrown(l) ==
    [l EXCEPT !.pc = "suite", !.out = "consoleNoise",
              !.message = NoiseMessage(extractConsoleEntries(l)),
              !.steps = {"noiseGuard"}, !.leaked = l.timers]

\* Lines 411-416: consoleHooks.afterEach() clears and drops the capture, then the
\* fixture cleanup is awaited.
CleanupAwaited(l) ==
    [l EXCEPT !.pc = "cleanup", !.capturing = FALSE, !.entries = <<>>,
              !.steps = {"noiseGuard", "consoleAfterEach", "fixtureCleanup"},
              !.leaked = l.timers]

\* Line 419: the timer leak check applies.
LeakChecked(l) == l.guards.timerPolicy = "fake" /\ l.guards.failOnTimerLeaks

\* Lines 416-430 once cleanupAll() settled with event e: its rejection leaves
\* afterEach(); otherwise the leak check and the revert to real timers follow.
Finish(l, e) ==
    IF e.out = "rejected"
        THEN [l EXCEPT !.pc = "suite", !.out = "cleanupFailed", !.count = e.value]
    ELSE IF LeakChecked(l) /\ l.timers > 0
        THEN [l EXCEPT !.pc = "suite", !.out = "timerLeak", !.count = l.timers,
                       !.timers = 0, !.steps = @ \cup {"timerCheck"}]
    ELSE [l EXCEPT !.pc = "suite", !.out = "ok", !.clock = "real",
                   !.steps = @ \cup {"timerCheck", "useRealTimers"}]

\* The lifecycle after a step of cleanupAll() that left the cleanup record c.
AfterCleanup(l, c, e) == IF c.pc = "idle" THEN Finish(l, e) ELSE l

LcAfterEach ==
    /\ life.pc \in {"test", "skipped"}
    /\ IF NoiseFound(life)
          THEN /\ life' = NoiseThrown(life)
               /\ ev' = Event("afterEach", NoName, "consoleNoise", Len(life.entries))
               /\ UNCHANGED <<fixtures, cleanupOrder, tasks, cleanup, hook, started, tdLog,
                              setupLog, live>>
          ELSE /\ CleanupAllCall
               /\ life' = AfterCleanup(CleanupAwaited(life), cleanup', ev')
    /\ UNCHANGED call

LcTeardownReturn ==
    /\ life.pc = "cleanup"
    /\ TeardownReturn
    /\ life' = AfterCleanup(life, cleanup', ev')
    /\ UNCHANGED call

LcTeardownThrow ==
    /\ life.pc = "cleanup"
    /\ TeardownThrow
    /\ life' = AfterCleanup(life, cleanup', ev')
    /\ UNCHANGED call

\* afterAll() (lines 432-442): fixtureHooks.afterAll(), which is registry.clear().
LcAfterAll ==
    /\ life.pc = "suite"
    /\ Clear
    /\ life' = [life EXCEPT !.pc = "done"]
    /\ UNCHANGED call

StrictNext ==
    \/ LcBeforeAll
    \/ LcBeforeEach
    \/ \E t \in tasks : LcProducerResolve(t, t.id)
    \/ \E t \in tasks : LcProducerResolve(t, Null)
    \/ \E t \in tasks : LcProducerReject(t)
    \/ \E n \in Names : LcGetFixture(n)
    \/ \E e \in ConsoleEntries : LcConsole(e)
    \/ LcSetTimeout
    \/ LcRunAllTimers
    \/ LcAfterEach
    \/ LcTeardownReturn
    \/ LcTeardownThrow
    \/ LcAfterAll

StrictSpec == StrictInit /\ [][StrictNext]_vars

(***************************************************************************)
(* One hook set of createAutomaticFixtureHooks (registry.ts:181-218)       *)
(* driven by the test runner: for every test beforeEach(), the test body   *)
(* (skipped when beforeEach() rejected) and afterEach(); afterAll()        *)
(* between tests.  The runner awaits each hook; producers that a rejected  *)
(* beforeEach() left running settle at any later time.  `call` is the      *)
(* runner: where it stands and whether afterAll() has run.                 *)
(***************************************************************************)
NewRunner == [fn |-> "runner", pc |-> "suite", cleared |-> FALSE]

HookInit ==
    /\ fixtures = RegisterAll(EmptyMap, 1)
    /\ cleanupOrder = <<>>
    /\ tasks = {}
    /\ cleanup = IdleCleanup
    /\ hook = NewHook
    /\ started = 0
    /\ ev = Event("createHooks", NoName, "ok", 0)
    /\ tdLog = <<>>
    /\ setupLog = <<>>
    /\ live = {}
    /\ life = NoLife
    /\ call = NewRunner

HkBeforeEach ==
    /\ call.pc = "suite"
    /\ BeforeEachCall
    /\ call' = [call EXCEPT !.pc = Awaited(AwaitAll(fixtures))]
    /\ UNCHANGED life

HkProducerResolve(t, v) ==
    /\ call.fn = "runner"
    /\ ProducerResolve(t, v)
    /\ call' = Continued(call, hook, hook', ev')
    /\ UNCHANGED life

HkProducerReject(t) ==
    /\ call.fn = "runner"
    /\ ProducerReject(t)
    /\ call' = Continued(call, hook, hook', ev')
    /\ UNCHANGED life

HkGetFixture(n) ==
    /\ call.pc = "test"
    /\ Get(n)
    /\ UNCHANGED <<life, call>>

\* The runner after a step of the hooks' afterEach() that left the cleanup record c.
AfterEachAwaited(r, c) == [r EXCEPT !.pc = IF c.pc = "idle" THEN "suite" ELSE "cleanup"]

HkAfterEach ==
    /\ call.pc \in {"test", "skipped"}
    /\ CleanupAllCall
    /\ call' = AfterEachAwaited(call, cleanup')
    /\ UNCHANGED life

HkTeardownReturn ==
    /\ call.pc = "cleanup"
    /\ TeardownReturn
    /\ call' = AfterEachAwaited(call, cleanup')
    /\ UNCHANGED life

HkTeardownThrow ==
    /\ call.pc = "cleanup"
    /\ TeardownThrow
    /\ call' = AfterEachAwaited(call, cleanup')
    /\ UNCHANGED life

HkAfterAll ==
    /\ call.pc = "suite"
    /\ Clear
    /\ call' = [call EXCEPT !.cleared = TRUE]
    /\ UNCHANGED life

HookNext ==
    \/ HkBeforeEach
    \/ \E t \in tasks : HkProducerResolve(t, t.id)
    \/ \E t \in tasks : HkProducerResolve(t, Null)
    \/ \E t \in tasks : HkProducerReject(t)
    \/ \E n \in Names : HkGetFixture(n)
    \/ HkAfterEach
    \/ HkTeardownReturn
    \/ HkTeardownThrow
    \/ HkAfterAll

HookSpec == HookInit /\ [][HookNext]_vars

(***************************************************************************)
(* The wrapper returned by setupJest (src/src/setup/jest-wrapper.ts:142-   *)
(* 246): what creating the preset installs, withTimers, and the httpClient *)
(* facade over an HttpMockRegistry.  The wrapper's state is the record     *)
(* `call`.                                                                 *)
(***************************************************************************)
MaxHandlers == 2    \* handlers registered on one facade
MaxRequests == 2    \* requests recorded on one facade

\* Options given to setupJest: none, or one of the two switches.
WrapperOptions ==
    {NoOptions} \cup {[shouldEnableObservabilityMatchers |-> v] : v \in BOOLEAN}
                \cup {[shouldFailOnUnhandledRejection |-> v] : v \in BOOLEAN}

\* setupMatchers (strict-mode.ts:466-471): what it installs.
setupMatchers(enableObservabilityMatchers) ==
    {"customMatchers"} \cup
        (IF enableObservabilityMatchers THEN {"observabilityMatchers"} ELSE {})

\* setupMatchersIfEnabled (strict-mode.ts:79-83)
setupMatchersIfEnabled(shouldEnableObservabilityMatchers) ==
    IF shouldEnableObservabilityMatchers THEN setupMatchers(TRUE) ELSE {}

\* The object literal setupErrorHandlersWithOptions builds (strict-mode.ts:109-113).
ErrorHandlerArguments(parsed) ==
    [logger |-> "logger",
     shouldFailOnUnhandledRejection |-> parsed.shouldFailOnUnhandledRejection,
     shouldFailOnConsoleError |-> parsed.shouldFailOnConsoleError]

\* `const { key } = options` used as a condition: a key the object does not have
\* reads undefined, which is falsy.
Truthy(options, key) == key \in DOMAIN options /\ options[key] = TRUE

\* setupErrorHandlers (setup/internal/error-handlers.ts:14-34): the handlers it installs.
setupErrorHandlers(options) ==
    (IF Truthy(options, "failOnUnhandledRejection") THEN {"unhandledRejection"} ELSE {})
        \cup (IF Truthy(options, "failOnConsoleError") THEN {"consoleError"} ELSE {})

\* What createStrictModePreset installs process-wide for the parsed options
\* (initializeComponents and setupGlobalConfiguration, strict-mode.ts:153-180).
Installed(parsed) ==
    setupMatchersIfEnabled(parsed.shouldEnableObservabilityMatchers)
        \cup setupErrorHandlers(ErrorHandlerArguments(parsed))

\* HttpMockRegistry: `handlers` maps a key to the handlers registered under it, in
\* registration order.  A key `${method}:${path}` is the pair of its two parts.
Methods == {"GET", "get", "POST"}

Paths == {"/users", "*"}

Urls == {"/users/1", "/items", "/all*"}

toUpperCase(m) == IF m = "get" THEN "GET" ELSE m

\* url.includes(path) on the strings above.
Includes(url, path) == <<url, path>> \in {<<"/users/1", "/users">>, <<"/all*", "*">>}

\* pathMatches (http/index.ts:202-207) for a string pattern.
pathMatches(url, pathPattern) == Includes(url, pathPattern)

NoHandlers == [k \in {} |-> <<>>]

\* this.handlers.get(key) ?? []
HandlersAt(handlers, key) == IF key \in DOMAIN handlers THEN handlers[key] ELSE <<>>

\* register (http/index.ts:42-47)
HandlerKey(handler) == <<toUpperCase(handler.method), handler.path>>

register(handlers, handler) ==
    LET key == HandlerKey(handler) IN
    [k \in (DOMAIN handlers) \cup {key} |->
        IF k = key THEN Append(HandlersAt(handlers, key), handler) ELSE handlers[k]]

\* getHandler (http/index.ts:127-138): the handlers under the looked-up key whose
\* path matches, in order; the first one is returned, none is `undefined`.
LookupKey(request) == <<toUpperCase(request.method), "*">>

getHandler(handlers, request) ==
    SelectSeq(HandlersAt(handlers, LookupKey(request)),
              LAMBDA h : pathMatches(request.url, h.path))

NoRequest == [op |-> "none"]

\* setupJest(preset, options): the wrapper.  `clock` is the runner's clock, `running`
\* the withTimers callback in progress, `given` the mode its caller passed.
NewWrapper(preset, options) ==
    [fn |-> "wrapper", preset |-> preset, options |-> options,
     parsed |-> getPresetHooks(preset, options),
     installed |-> Installed(getPresetHooks(preset, options)),
     clock |-> "real", running |-> "none", given |-> "none", settled |-> "none",
     handlers |-> NoHandlers, registered |-> 0, requests |-> <<>>, last |-> NoRequest]

WrapperInit ==
    /\ NewRegistry
    /\ life = NoLife
    /\ call = NoCall

Registry == UNCHANGED <<fixtures, cleanupOrder, tasks, cleanup, hook, started, ev, tdLog,
                        setupLog, live, life>>

CreateWrapper(preset, options) ==
    /\ call = NoCall
    /\ call' = NewWrapper(preset, options)
    /\ Registry

\* withTimers(testFn, mode = 'fake') (jest-wrapper.ts:182-193), up to the call of
\* testFn: the default parameter, then jest.useRealTimers() or runWithFakeTimers'
\* enableFakeTimers() on a new manager.
DefaultMode(given) == IF given = "absent" THEN "fake" ELSE given

WithTimers(given) ==
    /\ call.fn = "wrapper"
    /\ call.running = "none"
    /\ call' = [call EXCEPT !.running = DefaultMode(given), !.given = given,
                            !.clock = DefaultMode(given), !.settled = "none"]
    /\ Registry

\* testFn settled.  Under runWithFakeTimers the finally block (timers/index.ts:137-139)
\* calls disableFakeTimers(), which reverts to the real clock.
WithTimersSettled(outcome) ==
    /\ call.fn = "wrapper"
    /\ call.running # "none"
    /\ call' = [call EXCEPT !.running = "none", !.settled = outcome,
                            !.clock = IF call.running = "fake" THEN "real" ELSE @]
    /\ Registry

\* facade.mock.register(handler) and mockGet/mockPost, which build the handler and
\* register it.  The response is named by the registration's number.
MockRegister(method, path) ==
    /\ call.fn = "wrapper"
    /\ call.registered < MaxHandlers
    /\ call' = [call EXCEPT
                   !.registered = @ + 1,
                   !.handlers = register(@, [method |-> method, path |-> path,
                                             response |-> call.registered + 1]),
                   !.last = [op |-> "register", method |-> method, path |-> path,
                             out |-> "ok", response |-> call.registered + 1]]
    /\ Registry

\* facade.request(request) (jest-wrapper.ts:297-316), for a handler without delay.
FacadeRequest(method, url) ==
    LET request == [method |-> method, url |-> url]
        found == getHandler(call.handlers, request)
    IN  /\ call.fn = "wrapper"
        /\ Len(call.requests) < MaxRequests
        /\ call' = IF Len(found) = 0
                      THEN [call EXCEPT !.last = [op |-> "request", method |-> method,
                                                  path |-> url, out |-> "noMock",
                                                  response |-> 0]]
                      ELSE [call EXCEPT !.requests = Append(@, request),
                                        !.last = [op |-> "request", method |-> method,
                                                  path |-> url, out |-> "resolved",
                                                  response |-> found[1].response]]
        /\ Registry

WrapperNext ==
    \/ \E p \in PresetNames, o \in WrapperOptions : CreateWrapper(p, o)
    \/ \E m \in {"absent", "fake", "real"} : WithTimers(m)
    \/ \E o \in {"resolved", "rejected"} : WithTimersSettled(o)
    \/ \E m \in Methods, p \in Paths : MockRegister(m, p)
    \/ \E m \in Methods, u \in Urls : FacadeRequest(m, u)

WrapperSpec == WrapperInit /\ [][WrapperNext]_vars

(***************************************************************************)
(* Several hook sets in one process.  Every createAutomaticFixtureHooks()  *)
(* call obtains its registry from getAutomaticFixtureRegistry() and        *)
(* registers its fixtures there; the hooks it returns close over that      *)
(* registry and over the names it declared.  `call` holds the module       *)
(* variable globalRegistry (0 for null), the hook sets created, and for    *)
(* each name the hook set whose definition its record holds (0 for none).  *)
(* The registry variables above are the state of registry 1.               *)
(***************************************************************************)
MaxHookSets == 2

\* The fixtures objects passed to createAutomaticFixtureHooks().
Declarations == {<<"a">>, <<"b">>, Declared}

NoBinding == [n \in Names |-> 0]

NewProcess ==
    [fn |-> "hookSets", globalRegistry |-> 0, sets |-> <<>>, bound |-> NoBinding,
     ran |-> {}, last |-> <<"none", 0>>]

SharedInit ==
    /\ NewRegistry
    /\ life = NoLife
    /\ call = NewProcess

\* A function that constructs a registry on every call; k names the new registry.
getFreshRegistry(g, k) == k

\* globalRegistry ??= new AutomaticFixtureRegistry(); k names the new registry.
getAutomaticFixtureRegistry(g, k) == IF g = 0 THEN k ELSE g

\* The loop of register() calls over the entries of the fixtures object D.
RECURSIVE RegisterEach(_, _, _)
RegisterEach(fx, D, i) ==
    IF i > Len(D) THEN fx
    ELSE RegisterEach(MapSet(fx, D[i], NewRecord), D, i + 1)

\* The definitions the records hold once hook set k registered the names of D.
Rebound(bound, D, k) == [n \in Names |-> IF n \in Range(D) THEN k ELSE bound[n]]

CreateHookSet(D) ==
    /\ call.fn = "hookSets"
    /\ Len(call.sets) < MaxHookSets
    /\ Idle
    /\ fixtures' = RegisterEach(fixtures, D, 1)
    /\ tasks' = Dropped(tasks, Range(D))
    /\ hook' = NewHook
    /\ setupLog' = Without(setupLog, Range(D))
    /\ ev' = Event("createHooks", NoName, "ok", 0)
    /\ tdLog' = <<>>
    /\ call' = [call EXCEPT
                   !.globalRegistry = getAutomaticFixtureRegistry(@, Len(call.sets) + 1),
                   !.sets = Append(@, [declared |-> D,
                                       registry |-> getAutomaticFixtureRegistry(
                                                        call.globalRegistry, Len(call.sets) + 1)]),
                   !.bound = Rebound(@, D, Len(call.sets) + 1),
                   !.ran = {},
                   !.last = <<"create", Len(call.sets) + 1>>]
    /\ UNCHANGED <<cleanupOrder, cleanup, started, live, life>>

\* The producers a step invoked: the name and the hook set whose definition ran.
Ran(bound, before, after) == {<<t.name, bound[t.name]>> : t \in after \ before}

\* The setup() calls of the beforeEach() of a hook set that declared D, by the path
\* their synchronous part takes, as positions in D.
SetWith(fx, D, path) == {j \in 1..Len(D) : SetupPath(fx, D[j]) = path}

\* The setup() promises of that beforeEach() that are awaiting a producer, the
\* producers numbered in the order of D.
SetTasks(fx, D) ==
    {NewTask(started + Cardinality({k \in SetWith(fx, D, "producer") : k <= j}), D[j], TRUE) :
        j \in SetWith(fx, D, "producer")}

\* History: the setup() calls of that beforeEach() that returned stored data at once.
RECURSIVE SetLogCached(_, _, _, _)
SetLogCached(log, fx, D, i) ==
    IF i > Len(D) THEN log
    ELSE SetLogCached(IF SetupPath(fx, D[i]) = "cached" THEN Logged(log, D[i], fx[D[i]].data)
                                                        ELSE log,
                      fx, D, i + 1)

\* Promise.all over the setup() promises of that beforeEach().
SetAwaitAll(fx, D) ==
    IF SetWith(fx, D, "notRegistered") # {} THEN "rejected"
    ELSE IF SetWith(fx, D, "producer") = {} THEN "resolved"
    ELSE "pending"

\* beforeEach() of hook set i: setup(name) for each name the hook set declared,
\* whichever hook set's definition the registry holds for it, then the await.
SetBeforeEach(i) ==
    /\ call.fn = "hookSets"
    /\ i \in 1..Len(call.sets)
    /\ Idle
    /\ LET D == call.sets[i].declared IN
         /\ started + Cardinality(SetWith(fixtures, D, "producer")) <= MaxProducerCalls
         /\ tasks' = tasks \cup SetTasks(fixtures, D)
         /\ started' = started + Cardinality(SetWith(fixtures, D, "producer"))
         /\ hook' = IF SetAwaitAll(fixtures, D) = "pending"
                       THEN [pc |-> "pending",
                             waiting |-> {t.id : t \in SetTasks(fixtures, D)},
                             begun |-> SelectSeq(D, LAMBDA n : SetupPath(fixtures, n) = "producer")]
                       ELSE NewHook
         /\ setupLog' = SetLogCached(setupLog, fixtures, D, 1)
         /\ ev' = Event("beforeEach", NoName, SetAwaitAll(fixtures, D), 0)
    /\ tdLog' = <<>>
    /\ call' = [call EXCEPT !.ran = Ran(call.bound, tasks, tasks'),
                            !.last = <<"beforeEach", i>>]
    /\ UNCHANGED <<fixtures, cleanupOrder, cleanup, live, life>>

SetProducerResolve(t, v) ==
    /\ call.fn = "hookSets"
    /\ ProducerResolve(t, v)
    /\ UNCHANGED <<life, call>>

SetProducerReject(t) ==
    /\ call.fn = "hookSets"
    /\ ProducerReject(t)
    /\ UNCHANGED <<life, call>>

SetGetFixture(i, n) ==
    /\ call.fn = "hookSets"
    /\ i \in 1..Len(call.sets)
    /\ Get(n)
    /\ call' = [call EXCEPT !.ran = {}, !.last = <<"getFixture", i>>]
    /\ UNCHANGED life

SetAfterEach(i) ==
    /\ call.fn = "hookSets"
    /\ i \in 1..Len(call.sets)
    /\ CleanupAllCall
    /\ call' = [call EXCEPT !.ran = {}, !.last = <<"afterEach", i>>]
    /\ UNCHANGED life

SetTeardownReturn ==
    /\ call.fn = "hookSets"
    /\ TeardownReturn
    /\ UNCHANGED <<life, call>>

SetTeardownThrow ==
    /\ call.fn = "hookSets"
    /\ TeardownThrow
    /\ UNCHANGED <<life, call>>

SetAfterAll(i) ==
    /\ call.fn = "hookSets"
    /\ i \in 1..Len(call.sets)
    /\ Clear
    /\ call' = [call EXCEPT !.bound = NoBinding, !.ran = {}, !.last = <<"afterAll", i>>]
    /\ UNCHANGED life

SharedNext ==
    \/ \E D \in Declarations : CreateHookSet(D)
    \/ \E i \in 1..MaxHookSets : SetBeforeEach(i)
    \/ \E t \in tasks : SetProducerResolve(t, t.id)
    \/ \E t \in tasks : SetProducerResolve(t, Null)
    \/ \E t \in tasks : SetProducerReject(t)
    \/ \E i \in 1..MaxHookSets, n \in Names : SetGetFixture(i, n)
    \/ \E i \in 1..MaxHookSets : SetAfterEach(i)
    \/ SetTeardownReturn
    \/ SetTeardownThrow
    \/ \E i \in 1..MaxHookSets : SetAfterAll(i)

SharedSpec == SharedInit /\ [][SharedNext]_vars

(***************************************************************************)
(* Vocabulary of the properties.                                           *)
(***************************************************************************)
\* The names of the teardown invocations in a log, in the order they were made.
TeardownNames(log) == [i \in 1..Len(log) |-> log[i].name]

\* The number of teardowns in a log that threw.
Threw(log) == Cardinality({i \in 1..Len(log) : log[i].out = "threw"})

\* A cleanupAll() has just finished in state e.
CleanupEnded(e) == e.op = "cleanupAll"

\* A setup() call has just returned a value in state e.
SetupReturned(e) == e.op = "setup" /\ e.out \in {"value", "cached"}

(***************************************************************************)
(* C1.  LIFO teardown: when the setup() calls of distinct fixtures, each   *)
(* awaited before the next call, have returned instances in some order     *)
(* since the last cleanup and cleanupAll() runs, the teardowns it invokes   *)
(* are those fixtures' in the reverse of that order, whatever get() calls  *)
(* were made in between.                                                   *)
(***************************************************************************)
C1_LifoTeardown ==
    [][(CleanupEnded(ev') /\ cleanup.quiet) => TeardownNames(tdLog') = Reverse(setupLog)]_vars

(***************************************************************************)
(* C2.  beforeEach() resolves only when none of the producers it started   *)
(* is still in flight, and when it has started the producers of both       *)
(* declared fixtures and resolves, with nothing else in the cleanup order,  *)
(* the cleanup order is the declaration order.                             *)
(***************************************************************************)
BeforeEachResolved(e) == e.op = "beforeEach" /\ e.out = "resolved"

\* The producers started by the beforeEach() in progress are the last ones invoked.
BatchIds(h) == {i \in 1..started : i > started - Len(h.begun)}

C2_DeclarationOrder ==
    [][BeforeEachResolved(ev')
          => /\ \A t \in tasks' : t.id \notin BatchIds(hook)
             /\ (hook.begun = Declared /\ Len(cleanupOrder') = Len(Declared))
                    => cleanupOrder' = Declared]_vars

(***************************************************************************)
(* C3.  A setup(name) call made right after a setup(name) call returned    *)
(* invokes no producer, returns the same value and leaves the cleanup      *)
(* order as it is.                                                         *)
(***************************************************************************)
C3_IdempotentSetup ==
    [][(SetupReturned(ev) /\ SetupCall(ev.name))
          => /\ started' = started
             /\ tasks' = tasks
             /\ ev' = Event("setup", ev.name, "cached", ev.value)
             /\ cleanupOrder' = cleanupOrder]_vars

\* A second setup() returned the instance of the only producer invocation so far.
C3_Witness ==
    /\ ev.op = "setup" /\ ev.out = "cached" /\ ev.value = 1
    /\ started = 1
    /\ cleanupOrder = <<ev.name>>

(***************************************************************************)
(* C4.  No fixture name has two live instances (produced and not yet       *)
(* handed to a teardown) at any moment, overlapping setup() calls          *)
(* included.                                                               *)
(***************************************************************************)
LiveOf(n) == {p \in live : p[1] = n}

C4_OneLiveInstance == \A n \in Names : Cardinality(LiveOf(n)) <= 1

(***************************************************************************)
(* C5.  A cleanupAll() made with no producer in flight invokes the         *)
(* teardown of every fixture that the cleanup order names and that is set  *)
(* up with an instance, whichever teardowns throw; when it ends no         *)
(* teardown is pending, it rejects exactly when a teardown threw, and the  *)
(* error counts the teardowns that threw.                                  *)
(***************************************************************************)
C5_AllTeardownsAttempted ==
    [][(CleanupEnded(ev') /\ cleanup.quiet)
          => /\ Range(TeardownNames(tdLog')) = Range(cleanup.todo)
             /\ \A i \in 1..Len(tdLog') : tdLog'[i].out # "pending"
             /\ (ev'.out = "rejected") <=> (Threw(tdLog') > 0)
             /\ ev'.value = Threw(tdLog')]_vars

\* cleanupAll() rejected after the first teardown threw and the next one was still run.
C5_Witness ==
    /\ CleanupEnded(ev) /\ ev.out = "rejected" /\ ev.value = 1
    /\ Len(tdLog) = 2
    /\ tdLog[1].out = "threw"
    /\ tdLog[2].out = "ok"
    /\ tdLog[1].name # tdLog[2].name

(***************************************************************************)
(* C6.  When a cleanupAll() has ended, every fixture whose teardown it      *)
(* invoked, whether the teardown returned or threw, reports isSetup false  *)
(* and holds no instance.                                                  *)
(***************************************************************************)
C6_ReleasedAfterCleanup ==
    CleanupEnded(ev) =>
        \A i \in 1..Len(tdLog) :
            ~IsSetup(tdLog[i].name) /\ ~Usable(fixtures, tdLog[i].name)

(***************************************************************************)
(* C7.  A cleanupAll() made right after a cleanupAll() ended, resolved or  *)
(* rejected, invokes no teardown and resolves.                             *)
(***************************************************************************)
C7_QuiescentAfterCleanup ==
    [][(CleanupEnded(ev) /\ CleanupAllCall)
          => /\ ev' = Event("cleanupAll", NoName, "resolved", 0)
             /\ tdLog' = <<>>
             /\ cleanup' = IdleCleanup]_vars

\* A cleanupAll() did nothing although a fixture whose teardown threw is still set up.
C7_Witness ==
    /\ CleanupEnded(ev) /\ ev.out = "resolved"
    /\ tdLog = <<>>
    /\ started = 1 /\ tasks = {}
    /\ \E n \in Names : Usable(fixtures, n)

(***************************************************************************)
(* C8.  Between the operations of a caller that awaits every call, a name  *)
(* is in the cleanup order if and only if its fixture is set up, and the   *)
(* cleanup order is empty when a cleanupAll() has just ended.              *)
(***************************************************************************)
BetweenOperations == cleanup.pc = "idle" /\ hook.pc # "pending" /\ tasks = {}

C8_OrderIffSetup ==
    /\ BetweenOperations => \A n \in Names : (n \in Range(cleanupOrder)) <=> IsSetup(n)
    /\ CleanupEnded(ev) => cleanupOrder = <<>>

(***************************************************************************)
(* C9.  When the producer of a setup() throws, the registry and the        *)
(* cleanup order are left as they were and the caller gets the failure;    *)
(* a setup() of the same name made right after, the fixture not being set  *)
(* up, invokes the producer again.                                         *)
(***************************************************************************)
\* The step completes the setup() of task t with the producer's failure.
Rejects(t) == t \in tasks /\ t \notin tasks' /\ ev'.out \in {"producerFailed", "rejected"}

SetupFailed(e) == e.op = "setup" /\ e.out = "producerFailed"

C9_FailedSetupRetried ==
    [][/\ \A t \in tasks : Rejects(t) =>
             /\ fixtures' = fixtures
             /\ cleanupOrder' = cleanupOrder
             /\ ~t.batch => ev'.out = "producerFailed"
             /\ (t.batch /\ t.id \in hook.waiting) => ev' = Event("beforeEach", t.name, "rejected", 0)
       /\ (SetupFailed(ev) /\ ~IsSetup(ev.name) /\ SetupCall(ev.name))
             => /\ started' = started + 1
                /\ ev' = Event("setup", ev.name, "pending", 0)]_vars

\* A setup() was retried after the only earlier producer invocation failed.
C9_Witness ==
    /\ ev.op = "setup" /\ ev.out = "pending"
    /\ started = 2
    /\ Cardinality(tasks) = 1
    /\ cleanupOrder = <<>>
    /\ live = {}
    /\ ~IsSetup(ev.name)

(***************************************************************************)
(* C10.  For a caller that awaits every call, get(name) returns the        *)
(* instance exactly when a setup(name) has returned an instance and no     *)
(* cleanupAll(), clear() or re-registration of the name has happened       *)
(* since; otherwise it fails with the not-set-up error.                    *)
(***************************************************************************)
C10_GetOnlyWhenSetUp ==
    ev.op = "get" => ((ev.out = "value") <=> (ev.name \in Range(setupLog)))

(***************************************************************************)
(* C11.  register(name, fixture) on a name that is set up leaves the       *)
(* name's instance, its isSetup flag and the cleanup order as they were,   *)
(* so that the fixture is still one the next cleanupAll() tears down.      *)
(***************************************************************************)
C11_ReregisterKeepsInstance ==
    [][\A n \in Names :
          (Usable(fixtures, n) /\ Register(n))
              => /\ fixtures'[n] = fixtures[n]
                 /\ cleanupOrder' = cleanupOrder
                 /\ n \in Range(SelectSeq(cleanupOrder', LAMBDA m : Usable(fixtures', m)))]_vars

(***************************************************************************)
(* Vocabulary of the lifecycle properties.                                 *)
(***************************************************************************)
\* The step ends an afterEach(), by return or by throw.
AfterEachEnds == life.pc \in {"test", "skipped", "cleanup"} /\ life'.pc = "suite"

\* An afterEach() has ended and the next test has not begun.
AfterEachEnded == life.pc = "suite" /\ life.out # "none"

\* The step invokes a teardown.
TeardownInvoked == ev' # ev /\ ev'.op = "teardown"

\* The step is the call of afterEach().
AfterEachBegins == life.pc \in {"test", "skipped"} /\ life'.pc \in {"cleanup", "suite"}

\* The error text has a part with the level and the message of entry e.
TextNames(text, e) == \E j \in 1..Len(text) : text[j][1] = e.level /\ text[j][3] = e.message

(***************************************************************************)
(* C12.  In a strict-mode lifecycle a teardown is only ever invoked on an  *)
(* instance that a producer returned and no teardown was invoked on yet,   *)
(* and when an afterEach() ends, by return or by throw, every instance     *)
(* produced so far has had its teardown invoked.                           *)
(***************************************************************************)
C12_TornDownExactlyOnce ==
    [][/\ TeardownInvoked => <<ev'.name, ev'.value>> \in live
       /\ AfterEachEnds => live' = {}]_vars

(***************************************************************************)
(* C13.  Every afterEach() of the lifecycle, also one in which the console *)
(* noise guard raised, has run the console capture's afterEach and the     *)
(* fixture cleanup when it ends.                                           *)
(***************************************************************************)
C13_StepsAlwaysRun ==
    AfterEachEnded => {"consoleAfterEach", "fixtureCleanup"} \subseteq life.steps

(***************************************************************************)
(* C14.  When an afterEach() of the lifecycle has ended, by return or by   *)
(* throw, the real clock is in use, whatever the timer policy.             *)
(***************************************************************************)
C14_RealClockAfterEach == AfterEachEnded => life.clock = "real"

(***************************************************************************)
(* C15.  Under timer policy fake with failOnTimerLeaks, when an            *)
(* afterEach() has ended no fake timer is pending; if n > 0 were pending   *)
(* when it began and no earlier step threw, it threw the timer leak error  *)
(* naming n; if none was pending it did not throw that error.              *)
(***************************************************************************)
C15_TimerLeakRecovery ==
    (AfterEachEnded /\ LeakChecked(life))
        => /\ life.timers = 0
           /\ (life.leaked > 0 /\ life.out \notin {"consoleNoise", "cleanupFailed"})
                 => (life.out = "timerLeak" /\ life.count = life.leaked)
           /\ life.leaked = 0 => life.out # "timerLeak"

(***************************************************************************)
(* C16.  With failOnConsoleNoise, an afterEach() that begins while the     *)
(* capture holds at least one entry throws the console noise error, whose  *)
(* text has the level and the message of every captured entry; with no     *)
(* entry captured it does not throw that error.                            *)
(***************************************************************************)
C16_ConsoleNoiseDetected ==
    [][(AfterEachBegins /\ life.guards.failOnConsoleNoise /\ life.capturing)
          => IF Len(life.entries) > 0
                THEN /\ life'.out = "consoleNoise"
                     /\ \A i \in 1..Len(life.entries) : TextNames(life'.message, life.entries[i])
                ELSE life'.out # "consoleNoise"]_vars

\* afterEach() threw on two captured entries of different levels.
C16_Witness ==
    /\ AfterEachEnded /\ life.out = "consoleNoise"
    /\ Len(life.entries) = 2
    /\ life.entries[1].level # life.entries[2].level
    /\ Len(life.message) = 2

(***************************************************************************)
(* C17.  Under timer policy fake with failOnTimerLeaks, when an            *)
(* afterEach() whose fixture cleanup threw has ended, no fake timer is     *)
(* pending: the timers were still cleared.                                 *)
(***************************************************************************)
C17_TimersClearedAfterCleanupFailure ==
    (AfterEachEnded /\ life.out = "cleanupFailed" /\ LeakChecked(life)) => life.timers = 0

(***************************************************************************)
(* C18.  When an afterEach() of the lifecycle ends, by return or by throw, *)
(* no declared fixture is set up, so that the next beforeEach() invokes    *)
(* every producer and no test gets an instance of an earlier test.         *)
(***************************************************************************)
C18_NothingSetUpAfterEach ==
    [][AfterEachEnds
          => \A n \in Range(Declared) : ~(Has(fixtures', n) /\ fixtures'[n].setup)]_vars

(***************************************************************************)
(* C19.  afterAll() of a lifecycle with fixtures invokes no teardown and   *)
(* leaves the registry without definitions and instances and the cleanup   *)
(* order empty, so that getFixture fails for every name.                   *)
(***************************************************************************)
C19_AfterAllHardReset ==
    [][(life.pc = "suite" /\ life'.pc = "done")
          => /\ DOMAIN fixtures' = {}
             /\ cleanupOrder' = <<>>
             /\ cleanup' = IdleCleanup /\ ~TeardownInvoked /\ live' = live
             /\ \A n \in Names : GetResult(fixtures', n).out = "notSetup"]_vars

\* afterAll() ran while a fixture was set up with an instance no teardown was invoked on.
C19_Witness ==
    /\ life.pc = "done" /\ ev.op = "clear"
    /\ live # {}
    /\ fixtures = EmptyMap

(***************************************************************************)
(* C20.  With no caller overrides each preset name yields the              *)
(* configuration of the preset table: unit = fake timers, no request       *)
(* recording, 10 s; integration = real timers, recording, 30 s; e2e = real *)
(* timers, recording, 60 s; contract = real timers, recording, 30 s; all   *)
(* with fail-on-console-noise and fail-on-timer-leaks; any other name      *)
(* yields the unit configuration.                                          *)
(***************************************************************************)
TableRow(parsed) ==
    <<parsed.timerPolicy, parsed.shouldFailOnConsoleNoise, parsed.shouldFailOnTimerLeaks,
      parsed.shouldEnableRequestRecording, parsed.timeout>>

PresetTable(preset) ==
    CASE preset = "integration" -> <<"real", TRUE, TRUE, TRUE, 30000>>
      [] preset = "e2e" -> <<"real", TRUE, TRUE, TRUE, 60000>>
      [] preset = "contract" -> <<"real", TRUE, TRUE, TRUE, 30000>>
      [] OTHER -> <<"fake", TRUE, TRUE, FALSE, 10000>>

C20_PresetTable ==
    (call.fn = "setupJest" /\ call.done /\ call.options = NoOptions)
        => TableRow(call.result) = PresetTable(call.preset)

\* setupJest was applied to a name that is no preset, without overrides.
C20_Witness ==
    /\ call.fn = "setupJest" /\ call.done
    /\ call.preset = "smoke" /\ call.options = NoOptions
    /\ call.result.timeout = 10000

(***************************************************************************)
(* Vocabulary of the wrapper properties.                                   *)
(***************************************************************************)
\* A wrapper of one of the four presets, created with default options.
DefaultPreset ==
    /\ call.fn = "wrapper"
    /\ call.preset \in {"unit", "integration", "e2e", "contract"}
    /\ call.options = NoOptions

\* The step is a call of withTimers(); the step is the end of its callback.
WithTimersBegins == call.fn = "wrapper" /\ call.running = "none" /\ call'.running # "none"

WithTimersEnds == call.fn = "wrapper" /\ call.running # "none" /\ call'.running = "none"

\* The step is a call of request() on the facade.
RequestMade ==
    /\ call.fn = "wrapper"
    /\ call'.last.op = "request"
    /\ call'.running = call.running
    /\ call'.registered = call.registered

\* The handlers registered so far whose method and path match the request.
Matching(handlers, method, url) ==
    {h \in UNION {Range(handlers[k]) : k \in DOMAIN handlers} :
        toUpperCase(h.method) = toUpperCase(method) /\ pathMatches(url, h.path)}

(***************************************************************************)
(* C21.  A wrapper of any of the four presets, created with default        *)
(* options, has the custom assertion matchers installed.                   *)
(***************************************************************************)
C21_CustomMatchersInstalled == DefaultPreset => "customMatchers" \in call.installed

(***************************************************************************)
(* C22.  A wrapper of any of the four presets, created with default        *)
(* options, has the unhandled-rejection handler installed, the one that    *)
(* logs the rejection and throws it again.                                 *)
(***************************************************************************)
C22_UnhandledRejectionHandler == DefaultPreset => "unhandledRejection" \in call.installed

(***************************************************************************)
(* C24.  withTimers() called without a mode runs its callback on the clock *)
(* of the preset's timer policy, fake for unit and real for integration,   *)
(* e2e and contract; and when the callback of any withTimers() call has    *)
(* settled, resolved or rejected, the real clock is in use.                *)
(***************************************************************************)
C24_WithTimersPresetPolicy ==
    [][/\ (WithTimersBegins /\ DefaultPreset /\ call'.given = "absent")
            => call'.clock = (IF call.preset = "unit" THEN "fake" ELSE "real")
       /\ WithTimersEnds => call'.clock = "real"]_vars

(***************************************************************************)
(* C25.  On the httpClient facade a request() whose method and URL match a *)
(* registered handler resolves to the response of such a handler and is    *)
(* then in requests(); a request that matches no registered handler fails  *)
(* with the no-mock-registered error and records nothing.                  *)
(***************************************************************************)
C25_RequestFindsHandler ==
    [][RequestMade
          => LET m == Matching(call.handlers, call'.last.method, call'.last.path) IN
             IF m # {}
                THEN /\ call'.last.out = "resolved"
                     /\ call'.last.response \in {h.response : h \in m}
                     /\ call'.requests = Append(call.requests,
                                                [method |-> call'.last.method,
                                                 url |-> call'.last.path])
                ELSE /\ call'.last.out = "noMock"
                     /\ call'.requests = call.requests]_vars

(***************************************************************************)
(* Vocabulary of the hook set properties.                                  *)
(***************************************************************************)
\* The step is a producer failure that makes the pending beforeEach() reject.
BatchRejects == hook.pc = "pending" /\ hook'.pc = "idle" /\ ev'.out = "rejected"

\* The step is a call of cleanupAll().
CleanupCalled == cleanup.pc = "idle" /\ ev' # ev /\ ev'.op \in {"teardown", "cleanupAll"}

\* The step ends a cleanupAll() that was called with no producer in flight.
QuietCleanupEnds ==
    \/ cleanup.pc = "teardown" /\ cleanup'.pc = "idle" /\ cleanup.quiet
    \/ CleanupCalled /\ cleanup'.pc = "idle" /\ tasks = {}

\* The registry holds instance p[2] as the set-up value of name p[1], which is in
\* the cleanup order.
Held(p) ==
    /\ Has(fixtures, p[1])
    /\ fixtures[p[1]] = [data |-> p[2], setup |-> TRUE]
    /\ p[1] \in Range(cleanupOrder)

(***************************************************************************)
(* C23.  A producer failure during the hooks' beforeEach() rejects it with *)
(* that failure and rolls nothing back; every instance a producer has      *)
(* returned is set up and in the cleanup order when the next cleanupAll()  *)
(* is called, and has had its teardown invoked when a cleanupAll() called  *)
(* with no producer in flight ends.                                        *)
(***************************************************************************)
C23_NoRollbackTornDownNext ==
    [][/\ BatchRejects
            => /\ ev' = Event("beforeEach", ev'.name, "rejected", 0)
               /\ ev'.name \in {t.name : t \in tasks \ tasks'}
               /\ fixtures' = fixtures /\ cleanupOrder' = cleanupOrder /\ live' = live
       /\ CleanupCalled => \A p \in live : Held(p)
       /\ QuietCleanupEnds => live' = {}]_vars

\* The teardown invocations of the log that have not settled.
InProgress(log) == {i \in 1..Len(log) : log[i].out = "pending"}

(***************************************************************************)
(* C26.  During cleanupAll() at most one teardown, with its logging        *)
(* context scope, is in progress: of the teardowns invoked so far only the *)
(* last can be unsettled, and exactly while cleanupAll() is suspended on   *)
(* it; the next one is invoked only after it returned or threw.            *)
(***************************************************************************)
C26_OneTeardownAtATime ==
    /\ InProgress(tdLog) \subseteq {Len(tdLog)}
    /\ cleanup.pc = "teardown" <=> InProgress(tdLog) # {}

\* The second teardown was invoked after the first one threw.
C26_Witness ==
    /\ Len(tdLog) = 2
    /\ tdLog[1].out = "threw"
    /\ tdLog[2].out = "pending"
    /\ tdLog[1].name # tdLog[2].name

\* The step is a beforeEach() call of the hook set.
BeforeEachCalled == call.fn = "runner" /\ call.pc = "suite" /\ call'.pc # "suite"

(***************************************************************************)
(* C28.  Once afterAll() has run on the hook set, every later beforeEach() *)
(* of that hook set rejects at once (each setup() throws the not           *)
(* registered error) and sets up nothing: no producer is invoked and the   *)
(* registry is left as it was.                                             *)
(***************************************************************************)
C28_BeforeEachAfterAfterAll ==
    [][(BeforeEachCalled /\ call.cleared)
          => /\ ev' = Event("beforeEach", NoName, "rejected", 0)
             /\ DeclaredWith(fixtures, "notRegistered") = 1..Len(Declared)
             /\ call'.pc = "skipped"
             /\ started' = started /\ tasks' = tasks
             /\ fixtures' = fixtures /\ cleanupOrder' = cleanupOrder]_vars

\* A beforeEach() after afterAll() has rejected; before afterAll() one had set up a fixture.
C28_Witness ==
    /\ call.fn = "runner" /\ call.cleared /\ call.pc = "skipped"
    /\ ev = Event("beforeEach", NoName, "rejected", 0)
    /\ started > 0

(***************************************************************************)
(* Vocabulary of the null-instance properties.                             *)
(***************************************************************************)
\* The registry holds name n as set up with the value null.
NullHeld(fx, n) == Has(fx, n) /\ fx[n] = [data |-> Null, setup |-> TRUE]

\* The step is the continuation of a setup() whose producer returned null.
NullReturned(t) ==
    t \in tasks /\ tasks' = tasks \ {t} /\ cleanupOrder' # cleanupOrder /\ live' = live

\* The step is one of a cleanupAll() called with no producer in flight: its call or
\* the continuation after a teardown.
QuietCleanupStep ==
    \/ CleanupCalled /\ tasks = {}
    \/ cleanup.pc = "teardown" /\ cleanup.quiet /\ cleanup' # cleanup

\* The step is a direct call of setup(name).
SetupCalled == ev' # ev /\ ev'.op = "setup" /\ tasks \subseteq tasks'

AwaitedBy(h, t) == h.pc = "pending" /\ t.id \in h.waiting

\* The step is the failure of the producer of task t.
ProducerFails(t) ==
    /\ t \in tasks /\ tasks' = tasks \ {t}
    /\ cleanupOrder' = cleanupOrder
    /\ ev'.out \in {"rejected", "producerFailed"}

\* The step is the completion of the producer of task t.
ProducerCompletes(t) ==
    t \in tasks /\ tasks' = tasks \ {t} /\ cleanupOrder' # cleanupOrder

\* The Map holds instance p[2] as the data of name p[1].
Stored(fx, p) == Has(fx, p[1]) /\ fx[p[1]].data = p[2]

HookSets == 1..Len(call.sets)

\* The step is a call of the named hook of hook set i.
Through(op, i) == ev' # ev /\ call'.last = <<op, i>>

\* The names set up with an instance that the cleanup order holds.
SetUpNames == {n \in Range(cleanupOrder) : Usable(fixtures, n)}

\* The hook set created last among those that declare name n (0 if none does).
LastDeclaring(sets, n) ==
    IF \E j \in 1..Len(sets) : n \in Range(sets[j].declared)
        THEN CHOOSE j \in 1..Len(sets) :
                 /\ n \in Range(sets[j].declared)
                 /\ \A k \in 1..Len(sets) : n \in Range(sets[k].declared) => k <= j
        ELSE 0

(***************************************************************************)
(* C27.  All hook sets share one registry.  afterEach() through any hook   *)
(* set, called with no producer in flight, invokes the teardown of every   *)
(* fixture that is set up with an instance when it is called, whichever    *)
(* hook set declared it; afterAll() through any hook set                   *)
(* leaves no name of any hook set registered; a hook set's creation binds  *)
(* each name it declares to its own definition, and the producer that a    *)
(* beforeEach() runs for a name is that of the hook set created last among *)
(* those declaring it.                                                     *)
(***************************************************************************)
C27_OneRegistryForAllHookSets ==
    [][/\ \A i \in 1..Len(call'.sets) : call'.sets[i].registry = call'.sets[1].registry
       /\ \A i \in HookSets :
            /\ (Through("afterEach", i) /\ CleanupCalled)
                  => /\ cleanup'.pc = "idle" => SetUpNames = {}
                     /\ cleanup'.pc # "idle"
                           => (Range(cleanup'.todo) = SetUpNames /\ ev'.name \in SetUpNames)
            /\ (call.last = <<"afterEach", i>> /\ CleanupEnded(ev') /\ cleanup.quiet)
                  => Range(cleanup.todo) \subseteq Range(TeardownNames(tdLog'))
            /\ Through("afterAll", i)
                  => /\ \A j \in HookSets : \A n \in Range(call.sets[j].declared) :
                            SetupPath(fixtures', n) = "notRegistered"
                     /\ call'.bound = NoBinding
            /\ Through("beforeEach", i)
                  => /\ \A r \in call'.ran : r[2] = LastDeclaring(call.sets, r[1])
                     /\ \A n \in Range(call.sets[i].declared) :
                            SetupPath(fixtures, n) = "producer" => <<n, call.bound[n]>> \in call'.ran
       /\ Len(call'.sets) > Len(call.sets)
            => \A n \in Names :
                  call'.bound[n] = IF n \in Range(call'.sets[Len(call'.sets)].declared)
                                      THEN Len(call'.sets) ELSE call.bound[n]]_vars

\* An afterEach() through a hook set has ended after invoking the teardown of a
\* fixture that only the other hook set declares.
C27_Witness ==
    /\ call.fn = "hookSets" /\ Len(call.sets) = 2
    /\ CleanupEnded(ev)
    /\ \E i \in HookSets :
          /\ call.last = <<"afterEach", i>>
          /\ \E k \in 1..Len(tdLog) : tdLog[k].name \notin Range(call.sets[i].declared)

====
